---- MODULE Spec2Model ----
(***************************************************************************)
(* Model of the analysis core of the bril assignments repository:          *)
(*   - assignments/register_allocation.py : simplify / select colouring    *)
(*     with optimistic spilling and the retry with one register less;      *)
(*   - assignments/lib/control_flow_graph.py : construct_cfg and           *)
(*     reassemble, remove_critical_edges, prune_empty_cfg_blocks;          *)
(*   - assignments/lib/dataflow.py, lib/liveness_analysis.py and           *)
(*     lazy_code_motion.py : the worklist solver and two of its clients.   *)
(* Three specifications share the module: SpecRA runs register_allocation  *)
(* on an interference graph; SpecCFG runs construct_cfg followed by        *)
(* reassemble, a second construct_cfg, remove_critical_edges and           *)
(* prune_empty_cfg_blocks on an instruction list; SpecDF runs              *)
(* solve_dataflow for liveness_analysis and compute_postponable on a CFG,  *)
(* followed by construct_interference_graph.                               *)
(* SpecDFFair is SpecDF with the solver's loop running to its end.         *)
(***************************************************************************)
EXTENDS Integers, Sequences, FiniteSets, TLC

(***************************************************************************)
(* Bounds of the model.                                                    *)
(***************************************************************************)
MaxVerts == 4
MaxK == 3
MaxLen == 3
MaxBlocks == 2

VARIABLES
    \* ---- register_allocation.py ----
    num_physical_registers, \* argument of register_allocation
    ig_vertices,            \* vertices returned by construct_interference_graph(cfg)
    ig_edges,               \* edges returned by construct_interference_graph(cfg)
    attempt,                \* 1: first call of allocate_k_registers, 2: the retry
    k,                      \* num_physical_registers inside allocate_k_registers
    vertices,               \* local `vertices` of allocate_k_registers
    edges,                  \* local `edges` (dict: key -> set of neighbours)
    processed_vertices,     \* stack of (vertex, curr_edges, action)
    tag,                    \* vertex -> action it was pushed with in this attempt
    virtual_to_physical,    \* dict vertex -> register
    spill_set,              \* set of spilled vertices
    spill_count,            \* value returned by register_allocation
    ra_pc,                  \* position inside register_allocation
    \* ---- lib/control_flow_graph.py ----
    instrs,                 \* argument of construct_cfg
    block_only, per_line, remove_extra_jmps, \* options of construct_cfg
    blocks,                 \* sequence of blocks yielded by form_blocks
    block_map,              \* OrderedDict name -> block: [order, body]
    predecessors,           \* dict name -> list of names
    successors,             \* dict name -> list of names
    entry_arg,              \* the block map as it was handed to add_entry
    out_instrs,             \* result of reassemble
    cfg_error,              \* the exception that ended construct_cfg, "" for none
    cfg_pc,                 \* position inside construct_cfg / reassemble
    rebuilt,                \* construct_cfg(reassemble(cfg)): [bm, preds, succs, err]
    new_cfg,                \* remove_critical_edges(cfg): [bm, preds, succs, err, split]
    pruned,                 \* prune_empty_cfg_blocks(cfg): [bm, preds, succs, err]
    restrict_arg,           \* the cfg handed to restrict_to_single_instr: [before, after]
    \* ---- lib/dataflow.py, lib/liveness_analysis.py ----
    mode,                   \* argument of solve_dataflow: "forward" or "backward"
    cfg,                    \* argument of solve_dataflow: [block_map, predecessors, successors]
    earliest,               \* argument of compute_postponable: block name -> set of expressions
    in_facts,               \* block name -> fact
    out_facts,              \* block name -> fact
    worklist,               \* list of block names
    live_graph,             \* result of construct_interference_graph: [vertices, edges]
    df_pc                   \* position inside solve_dataflow and its caller

ra_vars == <<num_physical_registers, ig_vertices, ig_edges, attempt, k, vertices,
             edges, processed_vertices, tag, virtual_to_physical, spill_set,
             spill_count, ra_pc>>
\* what the callers of construct_cfg make of the CFG it returned
cfg_after == <<rebuilt, new_cfg, pruned, restrict_arg>>
cfg_vars == <<instrs, block_only, per_line, remove_extra_jmps, blocks, block_map,
              predecessors, successors, entry_arg, out_instrs, cfg_error, cfg_pc,
              cfg_after>>
df_vars == <<mode, cfg, earliest, in_facts, out_facts, worklist, live_graph, df_pc>>
vars == <<ra_vars, cfg_vars, df_vars>>
\* the variables a step of register_allocation.py leaves alone
not_ra_vars == <<cfg_vars, df_vars>>
\* the variables a step of lib/control_flow_graph.py leaves alone
not_cfg_vars == <<ra_vars, df_vars>>
\* the variables a step of lib/dataflow.py leaves alone
not_df_vars == <<ra_vars, cfg_vars>>

(***************************************************************************)
(* Generic helpers.                                                        *)
(***************************************************************************)
EmptyDict == [x \in {} |-> {}]

Range(s) == {s[i] : i \in 1..Len(s)}

Min(S) == CHOOSE x \in S : \A y \in S : x <= y

(***************************************************************************)
(*                     register_allocation.py                              *)
(***************************************************************************)
Values == 1..MaxVerts \* virtual values (variable names), numbered

tocolor == "to_color"
tospill == "to_spill"

\* virtual_to_physical.get(v2, None) for a vertex without colour
None == -1

\* A defaultdict(set) read: edges[v]
GetEdges(v, e) == IF v \in DOMAIN e THEN e[v] ELSE {}

\* The key that a defaultdict read edges[v] leaves behind
TouchKey(v, e) ==
    IF v \in DOMAIN e THEN e
    ELSE [x \in (DOMAIN e) \cup {v} |-> IF x = v THEN {} ELSE e[x]]

\* Results construct_interference_graph can return: any vertex set with any
\* symmetric, irreflexive adjacency; only vertices with a neighbour are keys.
InterferenceGraphs ==
    UNION { [V : {1..n}, E : SUBSET {p \in (1..n) \X (1..n) : p[1] < p[2]}] :
            n \in 0..MaxVerts }

AdjacencyOf(g) ==
    LET nb(v) == {w \in g.V : <<v, w>> \in g.E \/ <<w, v>> \in g.E}
    IN  [v \in {x \in g.V : nb(x) # {}} |-> nb(v)]

vertex_degree(vertex, e) ==
    IF vertex \in DOMAIN e THEN Cardinality(e[vertex]) ELSE 0

\* line 172: the test of the simplify loop
Qualifies_le(v, e, kk) == vertex_degree(v, e) <= kk
Qualifies(v, e, kk) == vertex_degree(v, e) < kk

\* lines 183-186: the vertices the max-degree scan can end with; the scan
\* starts from ("", 0) and replaces on strictly greater degree, in the
\* iteration order of a set, so any vertex of maximal positive degree.
MaxDegreeVertices(vs, e) ==
    {v \in vs : /\ vertex_degree(v, e) > 0
                /\ \A w \in vs : vertex_degree(w, e) <= vertex_degree(v, e)}

\* remove_node: does it run without an exception
remove_node_ok(vertex, vs, e) ==
    /\ vertex \in vs
    /\ \A v2 \in GetEdges(vertex, e) : v2 \in DOMAIN e /\ vertex \in e[v2]

\* remove_node without the walk over the neighbours' sets
remove_node_oneway(vertex, e) == [v2 \in (DOMAIN e) \ {vertex} |-> e[v2]]

\* remove_node: the edges left
remove_node(vertex, e) ==
    LET nb == GetEdges(vertex, e)
    IN  [v2 \in (DOMAIN e) \ {vertex} |->
            IF v2 \in nb THEN e[v2] \ {vertex} ELSE e[v2]]

\* add_node: the edges after restoring prev_edges towards present keys
add_node_noedges(vertex, e, prev_edges) == e
add_node(vertex, e, prev_edges) ==
    LET nb == prev_edges \cap DOMAIN e
    IN  IF nb = {} THEN e
        ELSE [v \in (DOMAIN e) \cup {vertex} |->
                IF v = vertex THEN GetEdges(vertex, e) \cup nb
                ELSE IF v \in nb THEN e[v] \cup {vertex}
                ELSE e[v]]

\* lines 122-124 / 135-137: colours of the neighbours, None for uncoloured
NeighborColors(vertex, vtp, e) ==
    {IF v2 \in DOMAIN vtp THEN vtp[v2] ELSE None : v2 \in GetEdges(vertex, e)}

\* lines 125-129: the register find_and_assign_open_color assigns, or None
\* when the assertion of line 129 fails
OpenColor_offbyone(vertex, vtp, e, kk) ==
    LET free == {r \in 1..kk : r \notin NeighborColors(vertex, vtp, e)}
    IN  IF free = {} THEN None ELSE Min(free)
OpenColor_skipzero(vertex, vtp, e, kk) ==
    LET free == {r \in 1..(kk - 1) : r \notin NeighborColors(vertex, vtp, e)}
    IN  IF free = {} THEN None ELSE Min(free)
OpenColor(vertex, vtp, e, kk) ==
    LET free == {r \in 0..(kk - 1) : r \notin NeighborColors(vertex, vtp, e)}
    IN  IF free = {} THEN None ELSE Min(free)

\* number_of_neighbor_colors counting the neighbours, not their distinct colours
number_of_neighbors(vertex, vtp, e) == Cardinality(GetEdges(vertex, e))

\* lines 135-139: the number of distinct colours among the neighbours
number_of_neighbor_colors(vertex, vtp, e) ==
    Cardinality(NeighborColors(vertex, vtp, e) \ {None})

\* virtual_to_physical[vertex] = register
AssignColor(vtp, vertex, register) ==
    [v \in (DOMAIN vtp) \cup {vertex} |-> IF v = vertex THEN register ELSE vtp[v]]

CFGIdle ==
    /\ instrs = <<>> /\ block_only = FALSE /\ per_line = FALSE /\ remove_extra_jmps = FALSE
    /\ blocks = <<>> /\ block_map = [order |-> <<>>, body |-> <<>>]
    /\ predecessors = <<>> /\ successors = <<>>
    /\ entry_arg = [order |-> <<>>, body |-> <<>>] /\ out_instrs = <<>>
    /\ cfg_error = "" /\ cfg_pc = "idle"
    /\ rebuilt = [bm |-> [order |-> <<>>, body |-> <<>>], preds |-> <<>>,
                  succs |-> <<>>, err |-> ""]
    /\ new_cfg = [bm |-> [order |-> <<>>, body |-> <<>>], preds |-> <<>>,
                  succs |-> <<>>, err |-> "", split |-> <<>>]
    /\ pruned = [bm |-> [order |-> <<>>, body |-> <<>>], preds |-> <<>>,
                 succs |-> <<>>, err |-> ""]
    /\ restrict_arg = [before |-> [bm |-> [order |-> <<>>, body |-> <<>>],
                                   preds |-> <<>>, succs |-> <<>>],
                       after |-> [bm |-> [order |-> <<>>, body |-> <<>>],
                                  preds |-> <<>>, succs |-> <<>>]]

DFIdle ==
    /\ mode = ""
    /\ cfg = [block_map |-> [order |-> <<>>, body |-> <<>>],
              predecessors |-> <<>>, successors |-> <<>>]
    /\ earliest = <<>> /\ in_facts = <<>> /\ out_facts = <<>> /\ worklist = <<>>
    /\ live_graph = [vertices |-> {}, edges |-> <<>>]
    /\ df_pc = "idle"

RAIdle ==
    /\ attempt = 0 /\ k = 0 /\ vertices = {} /\ edges = EmptyDict
    /\ processed_vertices = <<>> /\ tag = EmptyDict
    /\ virtual_to_physical = EmptyDict /\ spill_set = {}

InitRA ==
    /\ num_physical_registers \in 1..MaxK
    /\ \E g \in InterferenceGraphs :
          /\ ig_vertices = g.V
          /\ ig_edges = AdjacencyOf(g)
    /\ RAIdle
    /\ spill_count = -1
    /\ ra_pc = "start"
    /\ CFGIdle
    /\ DFIdle

\* allocate_k_registers, lines 149-166: entry with k registers
EnterAllocate(kk) ==
    /\ k' = kk
    /\ vertices' = ig_vertices
    /\ edges' = ig_edges
    /\ processed_vertices' = <<>>
    /\ tag' = EmptyDict
    /\ virtual_to_physical' = EmptyDict
    /\ spill_set' = {}
    /\ ra_pc' = "simplify"

\* register_allocation, lines 238-245: the first attempt
FirstAttempt ==
    /\ ra_pc = "start"
    /\ attempt' = 1
    /\ EnterAllocate(num_physical_registers)
    /\ UNCHANGED <<num_physical_registers, ig_vertices, ig_edges, spill_count>>
    /\ UNCHANGED not_ra_vars

Push(vertex, action) ==
    /\ processed_vertices' = Append(processed_vertices,
          [vertex |-> vertex, curr_edges |-> GetEdges(vertex, edges), action |-> action])
    /\ tag' = [v \in (DOMAIN tag) \cup {vertex} |-> IF v = vertex THEN action ELSE tag[v]]
    /\ vertices' = vertices \ {vertex}
    /\ edges' = remove_node(vertex, edges)

\* lines 168-178: one iteration of the simplify loop, case 1
SimplifyToColor ==
    /\ ra_pc = "simplify"
    /\ vertices # {}
    /\ \E vertex \in vertices :
          /\ Qualifies(vertex, edges, k)
          /\ IF remove_node_ok(vertex, vertices, edges)
             THEN Push(vertex, tocolor) /\ UNCHANGED ra_pc
             ELSE ra_pc' = "failed" /\ UNCHANGED <<vertices, edges, processed_vertices, tag>>
    /\ UNCHANGED <<num_physical_registers, ig_vertices, ig_edges, attempt, k,
                   virtual_to_physical, spill_set, spill_count>>
    /\ UNCHANGED not_ra_vars

\* lines 180-192: one iteration of the simplify loop, case 2
SimplifyToSpill ==
    /\ ra_pc = "simplify"
    /\ vertices # {}
    /\ \A v \in vertices : ~Qualifies(v, edges, k)
    /\ IF MaxDegreeVertices(vertices, edges) = {}
       THEN \* assertion of line 187
            ra_pc' = "failed" /\ UNCHANGED <<vertices, edges, processed_vertices, tag>>
       ELSE \E vertex \in MaxDegreeVertices(vertices, edges) :
               IF remove_node_ok(vertex, vertices, edges)
               THEN Push(vertex, tospill) /\ UNCHANGED ra_pc
               ELSE ra_pc' = "failed" /\ UNCHANGED <<vertices, edges, processed_vertices, tag>>
    /\ UNCHANGED <<num_physical_registers, ig_vertices, ig_edges, attempt, k,
                   virtual_to_physical, spill_set, spill_count>>
    /\ UNCHANGED not_ra_vars

\* lines 194-196: the simplify loop ends, the select phase starts
BeginSelect ==
    /\ ra_pc = "simplify"
    /\ vertices = {}
    /\ virtual_to_physical' = EmptyDict
    /\ spill_set' = {}
    /\ ra_pc' = "select"
    /\ UNCHANGED <<num_physical_registers, ig_vertices, ig_edges, attempt, k, vertices,
                   edges, processed_vertices, tag, spill_count>>
    /\ UNCHANGED not_ra_vars

Top == processed_vertices[Len(processed_vertices)]
Pop == SubSeq(processed_vertices, 1, Len(processed_vertices) - 1)

\* lines 202-204 / 218-223: find_and_assign_open_color on the restored vertex
Colour(vertex, e) ==
    LET register == OpenColor(vertex, virtual_to_physical, e, k)
    IN  /\ edges' = TouchKey(vertex, e)
        /\ IF register = None
           THEN ra_pc' = "failed" /\ UNCHANGED virtual_to_physical
           ELSE /\ virtual_to_physical' = AssignColor(virtual_to_physical, vertex, register)
                /\ UNCHANGED ra_pc

\* lines 197-204: pop a to-colour vertex
SelectToColor ==
    /\ ra_pc = "select"
    /\ processed_vertices # <<>>
    /\ Top.action = tocolor
    /\ processed_vertices' = Pop
    /\ IF Top.vertex \in vertices
       THEN \* assertion of line 98
            ra_pc' = "failed" /\ UNCHANGED <<vertices, edges, virtual_to_physical>>
       ELSE /\ vertices' = vertices \cup {Top.vertex}
            /\ Colour(Top.vertex, add_node(Top.vertex, edges, Top.curr_edges))
    /\ UNCHANGED <<num_physical_registers, ig_vertices, ig_edges, attempt, k, tag,
                   spill_set, spill_count>>
    /\ UNCHANGED not_ra_vars

\* lines 206-223: pop a to-spill vertex that turns out colourable
SelectOptimistic ==
    /\ ra_pc = "select"
    /\ processed_vertices # <<>>
    /\ Top.action = tospill
    /\ Top.vertex \notin vertices
    /\ LET e == add_node(Top.vertex, edges, Top.curr_edges)
       IN  /\ number_of_neighbor_colors(Top.vertex, virtual_to_physical, e) < k
           /\ vertices' = vertices \cup {Top.vertex}
           /\ Colour(Top.vertex, e)
    /\ processed_vertices' = Pop
    /\ UNCHANGED <<num_physical_registers, ig_vertices, ig_edges, attempt, k, tag,
                   spill_set, spill_count>>
    /\ UNCHANGED not_ra_vars

\* lines 206-216, 225-229: pop a to-spill vertex that is spilled
SelectSpill ==
    /\ ra_pc = "select"
    /\ processed_vertices # <<>>
    /\ Top.action = tospill
    /\ IF Top.vertex \in vertices
       THEN \* assertion of line 98
            ra_pc' = "failed" /\ UNCHANGED <<edges, spill_set>>
       ELSE LET e == TouchKey(Top.vertex, add_node(Top.vertex, edges, Top.curr_edges))
            IN  /\ ~(number_of_neighbor_colors(Top.vertex, virtual_to_physical, e) < k)
                /\ IF remove_node_ok(Top.vertex, vertices \cup {Top.vertex}, e)
                   THEN /\ edges' = remove_node(Top.vertex, e)
                        /\ spill_set' = spill_set \cup {Top.vertex}
                        /\ UNCHANGED ra_pc
                   ELSE ra_pc' = "failed" /\ UNCHANGED <<edges, spill_set>>
    /\ processed_vertices' = Pop
    /\ UNCHANGED <<num_physical_registers, ig_vertices, ig_edges, attempt, k, vertices, tag,
                   virtual_to_physical, spill_count>>
    /\ UNCHANGED not_ra_vars

\* line 233: allocate_k_registers returns (spill_set, virtual_to_physical)
AllocateReturn ==
    /\ ra_pc = "select"
    /\ processed_vertices = <<>>
    /\ ra_pc' = "returned"
    /\ UNCHANGED <<num_physical_registers, ig_vertices, ig_edges, attempt, k, vertices,
                   edges, processed_vertices, tag, virtual_to_physical, spill_set,
                   spill_count>>
    /\ UNCHANGED not_ra_vars

\* the retry with the register count of the first attempt
Retry_samek ==
    /\ ra_pc = "returned"
    /\ attempt = 1
    /\ spill_set # {}
    /\ attempt' = 2
    /\ EnterAllocate(num_physical_registers)
    /\ UNCHANGED <<num_physical_registers, ig_vertices, ig_edges, spill_count>>
    /\ UNCHANGED not_ra_vars

\* lines 246-254: the first attempt spilled, allocate again with one register less
Retry ==
    /\ ra_pc = "returned"
    /\ attempt = 1
    /\ spill_set # {}
    /\ attempt' = 2
    /\ EnterAllocate(num_physical_registers - 1)
    /\ UNCHANGED <<num_physical_registers, ig_vertices, ig_edges, spill_count>>
    /\ UNCHANGED not_ra_vars

\* lines 246, 264: register_allocation returns the spill count
Finish ==
    /\ ra_pc = "returned"
    /\ attempt = 2 \/ spill_set = {}
    /\ spill_count' = Cardinality(spill_set)
    /\ ra_pc' = "done"
    /\ UNCHANGED <<num_physical_registers, ig_vertices, ig_edges, attempt, k, vertices,
                   edges, processed_vertices, tag, virtual_to_physical, spill_set>>
    /\ UNCHANGED not_ra_vars

NextRA ==
    \/ FirstAttempt
    \/ SimplifyToColor
    \/ SimplifyToSpill
    \/ BeginSelect
    \/ SelectToColor
    \/ SelectOptimistic
    \/ SelectSpill
    \/ AllocateReturn
    \/ Retry
    \/ Finish

SpecRA == InitRA /\ [][NextRA]_vars

(***************************************************************************)
(*                     lib/control_flow_graph.py                           *)
(***************************************************************************)
\* A block name or label is a seed followed by a number: <<"_b", 2>> is the
\* string "_b2", <<"entry", 1>> is "entry1"; <<"A", 0>> is the plain label "A".
Name(seed, n) == <<seed, n>>
NoName == Name("", 0)

\* name.startswith("_b")
StartsWith_b(name) == name[1] = "_b"

\* lib/types.py: TERMINATOR_OPS
TERMINATOR_OPS == {"br", "jmp", "ret"}

\* Instructions, by the fields the CFG code reads: a label is {"label": n},
\* an instruction has "op" and, for jmp and br, "labels".
Label(n) == [op |-> "label", label |-> n, labels |-> <<>>, dest |-> ""]
Const(d) == [op |-> "const", label |-> NoName, labels |-> <<>>, dest |-> d]
Jmp(ls) == [op |-> "jmp", label |-> NoName, labels |-> ls, dest |-> ""]
Br(ls) == [op |-> "br", label |-> NoName, labels |-> ls, dest |-> ""]
Ret == [op |-> "ret", label |-> NoName, labels |-> <<>>, dest |-> ""]

IsLabel(instr) == instr.op = "label"
HasLabels(instr) == instr.op \in {"jmp", "br"}

LabelA == Name("A", 0)
LabelB == Name("B", 0)
Label_b1 == Name("_b", 1)

\* The instructions the input lists are made of; the last two have a target
\* list of the wrong length
Alphabet ==
    {Label(LabelA), Label(LabelB), Label(Label_b1), Const("x"), Const("y"),
     Jmp(<<LabelA>>), Jmp(<<Label_b1>>), Br(<<LabelA, LabelB>>), Ret,
     Jmp(<<LabelA, LabelB>>), Br(<<LabelA>>)}

\* Instruction lists of a Bril function: no label is declared twice
InstrLists ==
    UNION { {l \in [1..n -> Alphabet] :
                \A i \in 1..n : \A j \in 1..n :
                    (i # j /\ IsLabel(l[i]) /\ IsLabel(l[j])) => l[i] # l[j]} :
            n \in 0..MaxLen }

Last(s) == s[Len(s)]

\* OrderedDict: the keys in order and the value of each key
EmptyMap == [order |-> <<>>, body |-> <<>>]
Keys(bm) == Range(bm.order)

\* d[name] = block on an OrderedDict: a new key goes last, a key already
\* present keeps its place and loses its old value
DictSet(bm, name, block) ==
    [order |-> IF name \in Keys(bm) THEN bm.order ELSE Append(bm.order, name),
     body |-> [n \in Keys(bm) \cup {name} |-> IF n = name THEN block ELSE bm.body[n]]]

\* d[key] = val on a plain dict
DSet(d, key, val) ==
    [n \in (DOMAIN d) \cup {key} |-> IF n = key THEN val ELSE d[n]]

\* lib/utils.py fresh(seed, names): seed + str(i) for the first i >= 1 not taken
fresh(seed, names) ==
    Name(seed, Min({i \in 1..(Cardinality(names) + 1) : Name(seed, i) \notin names}))

\* form_blocks with a terminator that does not close its block
RECURSIVE form_blocks_loop_noclose(_, _, _, _)
form_blocks_loop_noclose(ins, i, cur_block, out) ==
    IF i > Len(ins)
    THEN IF cur_block # <<>> THEN Append(out, cur_block) ELSE out
    ELSE IF ~IsLabel(ins[i])
         THEN form_blocks_loop_noclose(ins, i + 1, Append(cur_block, ins[i]), out)
         ELSE form_blocks_loop_noclose(ins, i + 1, <<ins[i]>>,
                               IF cur_block # <<>> THEN Append(out, cur_block) ELSE out)

\* form_blocks: the loop over instrs[i..], cur_block being formed, out yielded so far
RECURSIVE form_blocks_loop(_, _, _, _)
form_blocks_loop(ins, i, cur_block, out) ==
    IF i > Len(ins)
    THEN IF cur_block # <<>> THEN Append(out, cur_block) ELSE out
    ELSE IF ~IsLabel(ins[i])
         THEN IF ins[i].op \in TERMINATOR_OPS
              THEN form_blocks_loop(ins, i + 1, <<>>, Append(out, Append(cur_block, ins[i])))
              ELSE form_blocks_loop(ins, i + 1, Append(cur_block, ins[i]), out)
         ELSE form_blocks_loop(ins, i + 1, <<ins[i]>>,
                               IF cur_block # <<>> THEN Append(out, cur_block) ELSE out)

form_blocks(ins) == form_blocks_loop(ins, 1, <<>>, <<>>)

form_line_blocks(ins) == [i \in 1..Len(ins) |-> <<ins[i]>>]

RECURSIVE generate_block_map_loop(_, _, _)
generate_block_map_loop(bs, i, by_name) ==
    IF i > Len(bs) THEN by_name
    ELSE IF IsLabel(bs[i][1])
         THEN generate_block_map_loop(bs, i + 1,
                  DictSet(by_name, bs[i][1].label, Tail(bs[i])))
         ELSE generate_block_map_loop(bs, i + 1,
                  DictSet(by_name, fresh("_b", Keys(by_name)), bs[i]))

generate_block_map(bs) == generate_block_map_loop(bs, 1, EmptyMap)

IndexOf(order, name) == Min({i \in 1..Len(order) : order[i] = name})

add_terminators(bm) ==
    [order |-> bm.order,
     body |-> [name \in Keys(bm) |->
        LET i == IndexOf(bm.order, name)
            block == bm.body[name]
        IN  IF block = <<>> \/ Last(block).op \notin TERMINATOR_OPS
            THEN Append(block, IF i = Len(bm.order) THEN Ret
                               ELSE Jmp(<<bm.order[i + 1]>>))
            ELSE block]]

\* add_entry, lines 298-303: does some instruction refer to the label
References(bm, lbl) ==
    \E name \in Keys(bm) : \E i \in 1..Len(bm.body[name]) :
        HasLabels(bm.body[name][i]) /\ lbl \in Range(bm.body[name][i].labels)

\* add_entry, lines 305-308 (the block map is not empty)
add_entry(bm) ==
    IF References(bm, bm.order[1])
    THEN LET new_lbl == fresh("entry", Keys(bm))
         IN  [order |-> <<new_lbl>> \o bm.order,
              body |-> [n \in Keys(bm) \cup {new_lbl} |->
                          IF n = new_lbl THEN <<>> ELSE bm.body[n]]]
    ELSE bm

\* successors(instr) of a terminator
instr_successors(instr) ==
    IF instr.op \in {"jmp", "br"} THEN instr.labels ELSE <<>>

\* edges: the exception it raises, "" when it returns
edges_error(bm) ==
    IF \E name \in Keys(bm) :
          bm.body[name] # <<>> /\ Last(bm.body[name]).op \notin TERMINATOR_OPS
    THEN "ValueError"
    ELSE IF \E name \in Keys(bm) :
               /\ bm.body[name] # <<>>
               /\ \E t \in Range(instr_successors(Last(bm.body[name]))) : t \notin Keys(bm)
         THEN "KeyError"
         ELSE ""

edges_succs(bm) ==
    [name \in Keys(bm) |->
        IF bm.body[name] = <<>> THEN <<>>
        ELSE instr_successors(Last(bm.body[name]))]

\* the names appended to preds[b], in the order of the loop of edges
RECURSIVE edges_preds_of(_, _, _)
edges_preds_of(bm, i, b) ==
    IF i > Len(bm.order) THEN <<>>
    ELSE LET hits == SelectSeq(edges_succs(bm)[bm.order[i]], LAMBDA t : t = b)
         IN  [j \in 1..Len(hits) |-> bm.order[i]] \o edges_preds_of(bm, i + 1, b)

edges_preds(bm) == [b \in Keys(bm) |-> edges_preds_of(bm, 1, b)]

\* remove_inserted_jmps: the exception it raises, "" when it returns
remove_inserted_jmps_error(bm) ==
    IF \E name \in Keys(bm) : \E i \in 1..Len(bm.body[name]) :
          bm.body[name][i].op = "jmp" /\ Len(bm.body[name][i].labels) > 1
    THEN "AssertionError"
    ELSE IF \E name \in Keys(bm) : \E i \in 1..Len(bm.body[name]) :
               bm.body[name][i].op = "jmp" /\ Len(bm.body[name][i].labels) = 0
         THEN "IndexError"
         ELSE ""

remove_inserted_jmps(bm) ==
    [order |-> bm.order,
     body |-> [name \in Keys(bm) |->
        SelectSeq(bm.body[name],
                  LAMBDA instr : ~(instr.op = "jmp" /\ StartsWith_b(instr.labels[1])))]]

\* list.remove(x): the first occurrence goes
RemoveFirst(s, x) ==
    LET i == Min({j \in 1..Len(s) : s[j] = x})
    IN  SubSeq(s, 1, i - 1) \o SubSeq(s, i + 1, Len(s))

\* restrict_to_single_instr, line 129: the name of the block split off
\* taken fresh with respect to cfg.block_map, the map being read, not new_cfg.block_map
split_name(cfg_block_map) == fresh("_b", Keys(cfg_block_map))

\* restrict_to_single_instr, lines 116-158: one iteration of the loop on the
\* state st = [bm, preds, succs, err] (new_cfg and the exception raised)
restrict_step(st, cfg_block_map, name) ==
    LET block == cfg_block_map.body[name]
        fail(e) == [st EXCEPT !.err = e]
    IN
    IF st.err # "" THEN st
    ELSE IF Len(block) <= 1 THEN [st EXCEPT !.bm = DictSet(st.bm, name, block)]
    ELSE IF Len(block) # 2 THEN fail("AssertionError")
    ELSE
      LET instr1 == block[1]
          instr2 == block[2]
          new_block_name == split_name(cfg_block_map)
          bm1 == DictSet(DictSet(st.bm, name, <<instr1>>), new_block_name, <<instr2>>)
          preds1 == DSet(st.preds, new_block_name, <<>>)
          succs1 == DSet(st.succs, new_block_name, <<>>)
      IN
      IF instr2.op = "ret"
      THEN [bm |-> bm1,
            succs |-> DSet(succs1, name, Append(succs1[name], new_block_name)),
            preds |-> DSet(preds1, new_block_name, Append(preds1[new_block_name], name)),
            err |-> ""]
      ELSE IF instr2.op = "jmp"
      THEN IF Len(instr2.labels) # 1 THEN fail("AssertionError")
           ELSE
             LET curr_succ == instr2.labels[1]
                 succs2 == DSet(succs1, name, Append(succs1[name], new_block_name))
             IN
             IF curr_succ \notin Range(succs2[name]) THEN fail("ValueError")
             ELSE
               LET succs3 == DSet(succs2, name, RemoveFirst(succs2[name], curr_succ))
                   succs4 == DSet(succs3, new_block_name,
                                  Append(succs3[new_block_name], curr_succ))
                   preds2 == DSet(preds1, new_block_name,
                                  Append(preds1[new_block_name], name))
               IN
               IF curr_succ \notin DOMAIN preds2 THEN fail("KeyError")
               ELSE IF name \notin Range(preds2[curr_succ]) THEN fail("ValueError")
               ELSE
                 LET preds3 == DSet(preds2, curr_succ, RemoveFirst(preds2[curr_succ], name))
                     preds4 == DSet(preds3, curr_succ, Append(preds3[curr_succ], new_block_name))
                 IN  [bm |-> bm1, succs |-> succs4, preds |-> preds4, err |-> ""]
      ELSE fail("AssertionError")

RECURSIVE restrict_loop(_, _, _)
restrict_loop(st, cfg_block_map, i) ==
    IF i > Len(cfg_block_map.order) THEN st
    ELSE restrict_loop(restrict_step(st, cfg_block_map, cfg_block_map.order[i]),
                       cfg_block_map, i + 1)

\* restrict_to_single_instr(cfg): new_cfg shares the predecessor and successor
\* dicts of cfg
restrict_to_single_instr(bm, preds, succs) ==
    restrict_loop([bm |-> EmptyMap, preds |-> preds, succs |-> succs, err |-> ""], bm, 1)

\* reassemble: what one block contributes
reassemble_block(bm, name) ==
    (IF StartsWith_b(name) THEN <<>> ELSE <<Label(name)>>)
    \o SelectSeq(bm.body[name],
                 LAMBDA instr : instr.op = "jmp" =>
                     (Len(instr.labels) = 1 /\ ~StartsWith_b(instr.labels[1])))

RECURSIVE reassemble_loop(_, _)
reassemble_loop(bm, i) ==
    IF i > Len(bm.order) THEN <<>>
    ELSE reassemble_block(bm, bm.order[i]) \o reassemble_loop(bm, i + 1)

reassemble(bm) == reassemble_loop(bm, 1)

\* get_tree_root, lines 21-24: the blocks without predecessors, in map order
possible_roots(bm, preds) ==
    SelectSeq(bm.order, LAMBDA name : Len(preds[name]) = 0)

\* no CFG yet, and the result of a call that raised err
NoCfg == [bm |-> EmptyMap, preds |-> <<>>, succs |-> <<>>, err |-> ""]
Raised(err) == [NoCfg EXCEPT !.err = err]

\* construct_cfg(instrs, block_only, per_line, remove_extra_jmps) as one call:
\* the CFG it returns, or the exception it raises
construct_cfg(ins, bo, pl, rj) ==
    LET bs == IF pl THEN form_line_blocks(ins) ELSE form_blocks(ins)
        terminated == add_terminators(generate_block_map(bs))
    IN  IF terminated.order = <<>> THEN Raised("StopIteration")
        ELSE LET bm == add_entry(terminated)
             IN  IF bo THEN [NoCfg EXCEPT !.bm = bm]
                 ELSE IF edges_error(bm) # "" THEN Raised(edges_error(bm))
                 ELSE IF ~rj
                      THEN [bm |-> bm, preds |-> edges_preds(bm),
                            succs |-> edges_succs(bm), err |-> ""]
                 ELSE IF remove_inserted_jmps_error(bm) # ""
                      THEN Raised(remove_inserted_jmps_error(bm))
                 ELSE LET st == restrict_to_single_instr(remove_inserted_jmps(bm),
                                       edges_preds(bm), edges_succs(bm))
                      IN  IF st.err # "" THEN Raised(st.err) ELSE st

\* remove_critical_edges, lines 43-50: the edge p -> name gets a block of its
\* own in new_cfg = st; st.split lists the edges split so far as <<p, name, new_name>>
split_edge(st, name, p) ==
    LET new_name == fresh("_b", Keys(st.bm))
        bm1 == DictSet(st.bm, new_name, <<>>)
        preds1 == DSet(st.preds, new_name, <<p>>)
        succs1 == DSet(st.succs, new_name, <<name>>)
    IN  IF st.err # "" THEN st
        ELSE IF p \notin DOMAIN succs1 THEN [st EXCEPT !.err = "KeyError"]
        ELSE IF name \notin Range(succs1[p]) THEN [st EXCEPT !.err = "ValueError"]
        ELSE IF p \notin Range(preds1[name]) THEN [st EXCEPT !.err = "ValueError"]
        ELSE [bm |-> bm1,
              preds |-> DSet(preds1, name, RemoveFirst(preds1[name], p)),
              succs |-> DSet(succs1, p, RemoveFirst(succs1[p], name)),
              err |-> "",
              split |-> Append(st.split, <<p, name, new_name>>)]

\* the loop of line 43 over preds = cfg.predecessors[name]
RECURSIVE split_preds(_, _, _, _)
split_preds(st, name, preds, j) ==
    IF j > Len(preds) THEN st
    ELSE split_preds(split_edge(st, name, preds[j]), name, preds, j + 1)

\* the loop of line 38 over cfg.block_map
RECURSIVE remove_critical_edges_loop(_, _, _, _)
remove_critical_edges_loop(st, cfg_block_map, cfg_predecessors, i) ==
    IF i > Len(cfg_block_map.order) \/ st.err # "" THEN st
    ELSE LET name == cfg_block_map.order[i]
         IN  IF name \notin DOMAIN cfg_predecessors THEN [st EXCEPT !.err = "KeyError"]
             ELSE remove_critical_edges_loop(
                      IF Len(cfg_predecessors[name]) > 1
                      THEN split_preds(st, name, cfg_predecessors[name], 1)
                      ELSE st,
                      cfg_block_map, cfg_predecessors, i + 1)

NoSplitCfg == [bm |-> EmptyMap, preds |-> <<>>, succs |-> <<>>, err |-> "", split |-> <<>>]

\* remove_critical_edges(cfg): new_cfg starts as a deep copy of cfg
remove_critical_edges(bm, preds, succs) ==
    remove_critical_edges_loop(
        [bm |-> bm, preds |-> preds, succs |-> succs, err |-> "", split |-> <<>>],
        bm, preds, 1)

\* del d[name] on an OrderedDict and on a plain dict
DictDel(bm, name) ==
    [order |-> SelectSeq(bm.order, LAMBDA n : n # name),
     body |-> [n \in Keys(bm) \ {name} |-> bm.body[n]]]

DDel(d, key) == [n \in (DOMAIN d) \ {key} |-> d[n]]

\* prune_empty_cfg_blocks, lines 176-178: every predecessor of the removed
\* block loses it as a successor and gains its successors
RECURSIVE prune_preds(_, _, _, _, _)
prune_preds(st, name, preds, succs, j) ==
    IF j > Len(preds) \/ st.err # "" THEN st
    ELSE LET p == preds[j]
         IN  IF p \notin DOMAIN st.succs THEN [st EXCEPT !.err = "KeyError"]
             ELSE IF name \notin Range(st.succs[p]) THEN [st EXCEPT !.err = "ValueError"]
             ELSE prune_preds(
                      [st EXCEPT !.succs = DSet(st.succs, p,
                                                RemoveFirst(st.succs[p], name) \o succs)],
                      name, preds, succs, j + 1)

\* lines 180-182: every successor of the removed block loses it as a
\* predecessor and gains its predecessors
RECURSIVE prune_succs(_, _, _, _, _)
prune_succs(st, name, preds, succs, j) ==
    IF j > Len(succs) \/ st.err # "" THEN st
    ELSE LET x == succs[j]
         IN  IF x \notin DOMAIN st.preds THEN [st EXCEPT !.err = "KeyError"]
             ELSE IF name \notin Range(st.preds[x]) THEN [st EXCEPT !.err = "ValueError"]
             ELSE prune_succs(
                      [st EXCEPT !.preds = DSet(st.preds, x,
                                                RemoveFirst(st.preds[x], name) \o preds)],
                      name, preds, succs, j + 1)

\* lines 168-182: the empty block name leaves new_cfg = st
prune_block(st, name) ==
    IF name \notin DOMAIN st.preds \/ name \notin DOMAIN st.succs
    THEN [st EXCEPT !.err = "KeyError"]
    ELSE LET preds == st.preds[name]
             succs == st.succs[name]
             st1 == [bm |-> DictDel(st.bm, name), preds |-> DDel(st.preds, name),
                     succs |-> DDel(st.succs, name), err |-> ""]
         IN  prune_succs(prune_preds(st1, name, preds, succs, 1), name, preds, succs, 1)

\* the loop of line 165 over cfg.block_map
RECURSIVE prune_loop(_, _, _)
prune_loop(st, cfg_block_map, i) ==
    IF i > Len(cfg_block_map.order) \/ st.err # "" THEN st
    ELSE LET name == cfg_block_map.order[i]
         IN  prune_loop(IF Len(cfg_block_map.body[name]) = 0 THEN prune_block(st, name)
                        ELSE st,
                        cfg_block_map, i + 1)

\* prune_empty_cfg_blocks(cfg): new_cfg starts as a deep copy of cfg
prune_empty_cfg_blocks(bm, preds, succs) ==
    prune_loop([bm |-> bm, preds |-> preds, succs |-> succs, err |-> ""], bm, 1)

\* a cfg argument before and after the call it was handed to
ArgOf(bm, preds, succs) == [bm |-> bm, preds |-> preds, succs |-> succs]
NoArg == [before |-> ArgOf(EmptyMap, <<>>, <<>>), after |-> ArgOf(EmptyMap, <<>>, <<>>)]

InitCFG ==
    /\ instrs \in InstrLists
    /\ block_only \in BOOLEAN
    /\ per_line \in BOOLEAN
    /\ remove_extra_jmps \in BOOLEAN
    /\ blocks = <<>>
    /\ block_map = EmptyMap
    /\ predecessors = <<>>
    /\ successors = <<>>
    /\ entry_arg = EmptyMap
    /\ out_instrs = <<>>
    /\ cfg_error = ""
    /\ cfg_pc = "start"
    /\ rebuilt = NoCfg
    /\ new_cfg = NoSplitCfg
    /\ pruned = NoCfg
    /\ restrict_arg = NoArg
    /\ RAIdle
    /\ num_physical_registers = 0 /\ ig_vertices = {} /\ ig_edges = EmptyDict
    /\ spill_count = -1
    /\ ra_pc = "idle"
    /\ DFIdle

\* construct_cfg, line 200
FormBlocks ==
    /\ cfg_pc = "start"
    /\ blocks' = IF per_line THEN form_line_blocks(instrs) ELSE form_blocks(instrs)
    /\ cfg_pc' = "formed"
    /\ UNCHANGED <<instrs, block_only, per_line, remove_extra_jmps, block_map,
                   predecessors, successors, entry_arg, out_instrs, cfg_error>>
    /\ UNCHANGED <<cfg_after, not_cfg_vars>>

\* construct_cfg, line 202
GenerateBlockMap ==
    /\ cfg_pc = "formed"
    /\ block_map' = generate_block_map(blocks)
    /\ cfg_pc' = "mapped"
    /\ UNCHANGED <<instrs, block_only, per_line, remove_extra_jmps, blocks,
                   predecessors, successors, entry_arg, out_instrs, cfg_error>>
    /\ UNCHANGED <<cfg_after, not_cfg_vars>>

\* construct_cfg, line 204
AddTerminators ==
    /\ cfg_pc = "mapped"
    /\ block_map' = add_terminators(block_map)
    /\ cfg_pc' = "terminated"
    /\ UNCHANGED <<instrs, block_only, per_line, remove_extra_jmps, blocks,
                   predecessors, successors, entry_arg, out_instrs, cfg_error>>
    /\ UNCHANGED <<cfg_after, not_cfg_vars>>

\* construct_cfg, line 206; next(iter(blocks.keys())) raises StopIteration on
\* an empty block map
AddEntry ==
    /\ cfg_pc = "terminated"
    /\ entry_arg' = block_map
    /\ IF block_map.order = <<>>
       THEN /\ cfg_error' = "StopIteration"
            /\ cfg_pc' = "error"
            /\ UNCHANGED block_map
       ELSE /\ block_map' = add_entry(block_map)
            /\ cfg_pc' = "entered"
            /\ UNCHANGED cfg_error
    /\ UNCHANGED <<instrs, block_only, per_line, remove_extra_jmps, blocks,
                   predecessors, successors, out_instrs>>
    /\ UNCHANGED <<cfg_after, not_cfg_vars>>

\* construct_cfg, lines 207-208: the block map alone is returned
ReturnBlockOnly ==
    /\ cfg_pc = "entered"
    /\ block_only
    /\ cfg_pc' = "returned"
    /\ UNCHANGED <<instrs, block_only, per_line, remove_extra_jmps, blocks, block_map,
                   predecessors, successors, entry_arg, out_instrs, cfg_error>>
    /\ UNCHANGED <<cfg_after, not_cfg_vars>>

\* construct_cfg, line 211
Edges ==
    /\ cfg_pc = "entered"
    /\ ~block_only
    /\ IF edges_error(block_map) # ""
       THEN /\ cfg_error' = edges_error(block_map)
            /\ cfg_pc' = "error"
            /\ UNCHANGED <<predecessors, successors>>
       ELSE /\ predecessors' = edges_preds(block_map)
            /\ successors' = edges_succs(block_map)
            /\ cfg_pc' = "edged"
            /\ UNCHANGED cfg_error
    /\ UNCHANGED <<instrs, block_only, per_line, remove_extra_jmps, blocks, block_map,
                   entry_arg, out_instrs>>
    /\ UNCHANGED <<cfg_after, not_cfg_vars>>

\* construct_cfg, lines 213, 223: the inserted jumps stay
ReturnWithJmps ==
    /\ cfg_pc = "edged"
    /\ ~remove_extra_jmps
    /\ cfg_pc' = "returned"
    /\ UNCHANGED <<instrs, block_only, per_line, remove_extra_jmps, blocks, block_map,
                   predecessors, successors, entry_arg, out_instrs, cfg_error>>
    /\ UNCHANGED <<cfg_after, not_cfg_vars>>

\* construct_cfg, lines 213-217
RemoveInsertedJmps ==
    /\ cfg_pc = "edged"
    /\ remove_extra_jmps
    /\ IF remove_inserted_jmps_error(block_map) # ""
       THEN /\ cfg_error' = remove_inserted_jmps_error(block_map)
            /\ cfg_pc' = "error"
            /\ UNCHANGED block_map
       ELSE /\ block_map' = remove_inserted_jmps(block_map)
            /\ cfg_pc' = "jmps_removed"
            /\ UNCHANGED cfg_error
    /\ UNCHANGED <<instrs, block_only, per_line, remove_extra_jmps, blocks,
                   predecessors, successors, entry_arg, out_instrs>>
    /\ UNCHANGED <<cfg_after, not_cfg_vars>>

\* construct_cfg, lines 218-221
RestrictToSingleInstr ==
    /\ cfg_pc = "jmps_removed"
    /\ LET st == restrict_to_single_instr(block_map, predecessors, successors)
       IN  IF st.err # ""
           THEN /\ cfg_error' = st.err
                /\ cfg_pc' = "error"
                /\ UNCHANGED <<block_map, predecessors, successors, restrict_arg>>
           ELSE /\ block_map' = st.bm
                /\ predecessors' = st.preds
                /\ successors' = st.succs
                /\ restrict_arg' = [before |-> ArgOf(block_map, predecessors, successors),
                                    after |-> ArgOf(block_map, st.preds, st.succs)]
                /\ cfg_pc' = "returned"
                /\ UNCHANGED cfg_error
    /\ UNCHANGED <<instrs, block_only, per_line, remove_extra_jmps, blocks,
                   entry_arg, out_instrs>>
    /\ UNCHANGED <<rebuilt, new_cfg, pruned, not_cfg_vars>>

\* baseline.py, lines 8-10: reassemble(construct_cfg(instrs))
Reassemble ==
    /\ cfg_pc = "returned"
    /\ out_instrs' = reassemble(block_map)
    /\ cfg_pc' = "reassembled"
    /\ UNCHANGED <<instrs, block_only, per_line, remove_extra_jmps, blocks, block_map,
                   predecessors, successors, entry_arg, cfg_error>>
    /\ UNCHANGED <<cfg_after, not_cfg_vars>>

\* the instruction list written by reassemble is read back:
\* construct_cfg(reassemble(cfg)) with the options cfg was built with
Rebuild ==
    /\ cfg_pc = "reassembled"
    /\ rebuilt' = construct_cfg(out_instrs, block_only, per_line, remove_extra_jmps)
    /\ cfg_pc' = "rebuilt"
    /\ UNCHANGED <<instrs, block_only, per_line, remove_extra_jmps, blocks, block_map,
                   predecessors, successors, entry_arg, out_instrs, cfg_error, new_cfg,
                   pruned, restrict_arg>>
    /\ UNCHANGED not_cfg_vars

\* critical_edges_test.py, lines 19-20: remove_critical_edges(construct_cfg(prog))
RemoveCriticalEdges ==
    /\ cfg_pc = "returned"
    /\ ~block_only
    /\ new_cfg' = remove_critical_edges(block_map, predecessors, successors)
    /\ cfg_pc' = IF new_cfg'.err # "" THEN "error" ELSE "critical_removed"
    /\ cfg_error' = new_cfg'.err
    /\ UNCHANGED <<instrs, block_only, per_line, remove_extra_jmps, blocks, block_map,
                   predecessors, successors, entry_arg, out_instrs, rebuilt,
                   pruned, restrict_arg>>
    /\ UNCHANGED not_cfg_vars

\* prune_empty_cfg_blocks on the CFG construct_cfg returned (the call of
\* construct_cfg, line 220)
PruneEmptyCfgBlocks ==
    /\ cfg_pc = "returned"
    /\ ~block_only
    /\ pruned' = prune_empty_cfg_blocks(block_map, predecessors, successors)
    /\ cfg_pc' = IF pruned'.err # "" THEN "error" ELSE "pruned"
    /\ cfg_error' = pruned'.err
    /\ UNCHANGED <<instrs, block_only, per_line, remove_extra_jmps, blocks, block_map,
                   predecessors, successors, entry_arg, out_instrs, rebuilt, new_cfg,
                   restrict_arg>>
    /\ UNCHANGED not_cfg_vars

NextCFG ==
    \/ FormBlocks
    \/ GenerateBlockMap
    \/ AddTerminators
    \/ AddEntry
    \/ ReturnBlockOnly
    \/ Edges
    \/ ReturnWithJmps
    \/ RemoveInsertedJmps
    \/ RestrictToSingleInstr
    \/ Reassemble
    \/ Rebuild
    \/ RemoveCriticalEdges
    \/ PruneEmptyCfgBlocks

SpecCFG == InitCFG /\ [][NextCFG]_vars

(***************************************************************************)
(*   lib/dataflow.py, lib/liveness_analysis.py and the interference graph  *)
(*   register_allocation.py builds from the live sets                      *)
(***************************************************************************)
\* Instructions, by the fields the analyses read: "dest" ("" when the
\* instruction has none), "args" and "op".
ConstTo(d) == [op |-> "const", dest |-> d, args |-> <<>>]
PrintOf(a) == [op |-> "print", dest |-> "", args |-> <<a>>]
IdTo(d, a) == [op |-> "id", dest |-> d, args |-> <<a>>]
AddTo(d, a, b) == [op |-> "add", dest |-> d, args |-> <<a, b>>]
MulTo(d, a, b) == [op |-> "mul", dest |-> d, args |-> <<a, b>>]

\* lib/types.py: EXPRESSIONS
EXPRESSIONS ==
    {"add", "mul", "sub", "div", "eq", "lt", "gt", "le", "ge", "not", "and", "or"}

\* The blocks liveness_analysis is run on
LiveBlocks ==
    {<<>>, <<ConstTo("x")>>, <<PrintOf("x")>>, <<PrintOf("y")>>, <<IdTo("y", "x")>>,
     <<PrintOf("x"), PrintOf("y")>>}

\* The blocks of the diamond, in which x is the only value read
DiamondBlocks ==
    {<<>>, <<ConstTo("x")>>, <<ConstTo("y")>>, <<PrintOf("x")>>, <<IdTo("y", "x")>>,
     <<ConstTo("x"), PrintOf("x")>>, <<PrintOf("x"), ConstTo("x")>>,
     <<ConstTo("y"), ConstTo("x")>>}

\* The blocks compute_postponable is run on (one instruction per block at most)
ExprBlocks == {<<>>, <<AddTo("y", "x", "x")>>}

\* lazy_code_motion.py try_get_expression: (op, *args) of an instruction
ExprOf(instr) == <<instr.op, instr.args>>

\* The values of earliest[blockname]
EarliestChoices ==
    {{}, {ExprOf(AddTo("y", "x", "x")), ExprOf(MulTo("y", "x", "x"))}}

\* Block names, in block map order
BlockNames == <<"A", "B", "C", "D">>

\* The successor lists of a block: none (ret), one (jmp), two (br)
SuccLists(order) ==
    {<<>>} \cup {<<order[i]>> : i \in 1..Len(order)}
           \cup UNION {{<<order[i], order[j]>> : i \in 1..(j - 1)} : j \in 1..Len(order)}

\* edges(): the predecessors of b, in block map order
preds_in_order(order, succs, b) ==
    SelectSeq(order, LAMBDA a : b \in Range(succs[a]))

\* A ControlFlowGraph whose predecessor map is the inverse of its successor map
CfgOf(order, succs, body) ==
    [block_map |-> [order |-> order, body |-> body],
     predecessors |-> [b \in Range(order) |-> preds_in_order(order, succs, b)],
     successors |-> succs]

\* cfg is a CFG over the given blocks, with any successor lists and with
\* blocks taken from block_choices
IsCfgOver(order, block_choices) ==
    \E succs \in [Range(order) -> SuccLists(order)] :
        \E body \in [Range(order) -> block_choices] :
            cfg = CfgOf(order, succs, body)

\* The diamond A -> B, A -> C, B -> D, C -> D
DiamondSuccs ==
    [b \in Range(BlockNames) |->
        IF b = "A" THEN <<"B", "C">> ELSE IF b = "D" THEN <<>> ELSE <<"D">>]

Mentions(block, v) ==
    \E i \in 1..Len(block) : block[i].dest = v \/ v \in Range(block[i].args)

Reads(block, v) == \E i \in 1..Len(block) : v \in Range(block[i].args)

\* the block reads v before it writes v
ReadsFirst(block, v) ==
    \E i \in 1..Len(block) :
        /\ v \in Range(block[i].args)
        /\ \A j \in 1..(i - 1) : block[j].dest # v

\* The diamonds in which B defines x, D uses x, C never touches x and nothing
\* but D reads x
DiamondCfgs ==
    {CfgOf(BlockNames, DiamondSuccs, body) :
        body \in {f \in [Range(BlockNames) -> DiamondBlocks] :
                    /\ ~Reads(f["A"], "x")
                    /\ \E i \in 1..Len(f["B"]) : f["B"][i].dest = "x"
                    /\ ~Reads(f["B"], "x")
                    /\ ~Mentions(f["C"], "x")
                    /\ ReadsFirst(f["D"], "x")}}

\* liveness_analysis.py gen(block)
gen(block) == {block[i].dest : i \in {j \in 1..Len(block) : block[j].dest # ""}}

\* liveness_analysis.py use(block): the loop at instruction i
RECURSIVE use_loop(_, _, _, _)
use_loop(block, i, defined, used) ==
    IF i > Len(block) THEN used
    ELSE use_loop(block, i + 1,
                  IF block[i].dest # "" THEN defined \cup {block[i].dest} ELSE defined,
                  used \cup {v \in Range(block[i].args) : v \notin defined})

use(block) == use_loop(block, 1, {}, {})

\* liveness_transfer_fn with use and gen exchanged
liveness_transfer_fn_swapped(out, blk) == gen(blk) \cup (out \ use(blk))

\* liveness_transfer_fn that forgets what is live out of the block
liveness_transfer_fn_local(out, blk) == use(blk)

\* liveness_analysis: transfer_fn and meet_fn
liveness_transfer_fn(out, blk) == use(blk) \cup (out \ gen(blk))

liveness_meet_fn(facts) == UNION Range(facts)

\* lazy_code_motion.py expression_use(block), on a block of at most one instruction
expression_use(block) ==
    IF Len(block) = 0 THEN {}
    ELSE IF block[1].op \in EXPRESSIONS THEN {ExprOf(block[1])} ELSE {}

\* compute_postponable: transfer_fn
postponable_transfer_fn(in_fact, block, blockname, earl) ==
    (in_fact \cup earl[blockname]) \ expression_use(block)

\* compute_postponable: meet_fn. `out` starts as None and `if out` is false for
\* None and for the empty set alike, so {} stands for both
RECURSIVE postponable_meet_loop(_, _, _)
postponable_meet_loop(facts, i, out) ==
    IF i > Len(facts) THEN out
    ELSE postponable_meet_loop(facts, i + 1,
                               IF out # {} THEN out \cap facts[i] ELSE facts[i])

postponable_meet_fn(facts) == postponable_meet_loop(facts, 1, {})

\* The functions solve_dataflow is called with: those of liveness_analysis in
\* backward mode, those of compute_postponable in forward mode
transfer_fn(m, fact, block, block_key, earl) ==
    IF m = "backward" THEN liveness_transfer_fn(fact, block)
    ELSE postponable_transfer_fn(fact, block, block_key, earl)

meet_fn(m, facts) ==
    IF m = "backward" THEN liveness_meet_fn(facts) ELSE postponable_meet_fn(facts)

\* fact_equality_checker of both callers
fact_equality_checker(s1, s2) == s1 = s2

\* the generator (facts[b] for b in names)
FactsOf(facts, names) == [i \in 1..Len(names) |-> facts[names[i]]]

\* the worklist after a turn of loop that popped its head without requeueing
next_worklist_noextend(wl, changed, names) == Tail(wl)

\* the worklist after a turn of the loop that puts the popped block back
next_worklist_requeue(wl, changed, names) == Tail(wl) \o <<Head(wl)>>

\* the worklist after a turn of the loop that requeues one neighbour only
next_worklist_first(wl, changed, names) ==
    IF changed /\ names # <<>> THEN Append(Tail(wl), names[1]) ELSE Tail(wl)

\* lines 36, 49-52 and 73, 88-91: worklist.pop(0), and worklist.extend(names)
\* when the fact of the block changed
next_worklist(wl, changed, names) ==
    IF changed THEN Tail(wl) \o names ELSE Tail(wl)

Reverse(s) == [i \in 1..Len(s) |-> s[Len(s) + 1 - i]]

InitDF ==
    /\ mode \in {"forward", "backward"}
    /\ \/ \E n \in 1..MaxBlocks :
             IsCfgOver(SubSeq(BlockNames, 1, n),
                       IF mode = "backward" THEN LiveBlocks ELSE ExprBlocks)
       \/ mode = "backward" /\ cfg \in DiamondCfgs
    /\ earliest \in [Keys(cfg.block_map) ->
                        IF mode = "backward" THEN {{}} ELSE EarliestChoices]
    /\ in_facts = <<>> /\ out_facts = <<>> /\ worklist = <<>>
    /\ live_graph = [vertices |-> {}, edges |-> <<>>]
    /\ df_pc = "start"
    /\ CFGIdle
    /\ RAIdle
    /\ num_physical_registers = 0 /\ ig_vertices = {} /\ ig_edges = EmptyDict
    /\ spill_count = -1
    /\ ra_pc = "idle"

\* forward_data_flow lines 30-34, backward_data_flow lines 65-71: the facts
\* are defaultdicts, read here as the empty fact for every block, and every
\* block is on the worklist
SolveDataflow ==
    /\ df_pc = "start"
    /\ in_facts' = [b \in Keys(cfg.block_map) |-> {}]
    /\ out_facts' = [b \in Keys(cfg.block_map) |-> {}]
    /\ worklist' = IF mode = "forward" THEN cfg.block_map.order
                   ELSE Reverse(cfg.block_map.order)
    /\ df_pc' = "solving"
    /\ UNCHANGED <<mode, cfg, earliest, live_graph>>
    /\ UNCHANGED not_df_vars

\* forward_data_flow, lines 35-52: one turn of the loop
ForwardStep ==
    /\ df_pc = "solving"
    /\ mode = "forward"
    /\ Len(worklist) > 0
    /\ LET block_key == Head(worklist)
           block == cfg.block_map.body[block_key]
           in_fact == meet_fn(mode, FactsOf(out_facts, cfg.predecessors[block_key]))
           new_out_fact == transfer_fn(mode, in_fact, block, block_key, earliest)
           changed == ~fact_equality_checker(new_out_fact, out_facts[block_key])
       IN  /\ in_facts' = [in_facts EXCEPT ![block_key] = in_fact]
           /\ out_facts' = IF changed
                            THEN [out_facts EXCEPT ![block_key] = new_out_fact]
                            ELSE out_facts
           /\ worklist' = next_worklist(worklist, changed, cfg.successors[block_key])
    /\ UNCHANGED <<mode, cfg, earliest, live_graph, df_pc>>
    /\ UNCHANGED not_df_vars

\* backward_data_flow, lines 72-91: one turn of the loop
BackwardStep ==
    /\ df_pc = "solving"
    /\ mode = "backward"
    /\ Len(worklist) > 0
    /\ LET block_key == Head(worklist)
           block == cfg.block_map.body[block_key]
           out_fact == meet_fn(mode, FactsOf(in_facts, cfg.successors[block_key]))
           new_in_fact == transfer_fn(mode, out_fact, block, block_key, earliest)
           changed == ~fact_equality_checker(new_in_fact, in_facts[block_key])
       IN  /\ out_facts' = [out_facts EXCEPT ![block_key] = out_fact]
           /\ in_facts' = IF changed
                           THEN [in_facts EXCEPT ![block_key] = new_in_fact]
                           ELSE in_facts
           /\ worklist' = next_worklist(worklist, changed, cfg.predecessors[block_key])
    /\ UNCHANGED <<mode, cfg, earliest, live_graph, df_pc>>
    /\ UNCHANGED not_df_vars

\* lines 53 and 92: the worklist is empty, the facts are returned
SolveReturn ==
    /\ df_pc = "solving"
    /\ Len(worklist) = 0
    /\ df_pc' = "done"
    /\ UNCHANGED <<mode, cfg, earliest, in_facts, out_facts, worklist, live_graph>>
    /\ UNCHANGED not_df_vars

\* backward_data_flow for liveness_analysis as one call, lines 72-92: the
\* facts returned from the worklist wl and the facts inf, outf on the CFG c
RECURSIVE backward_data_flow(_, _, _, _)
backward_data_flow(c, wl, inf, outf) ==
    IF Len(wl) = 0 THEN [in_facts |-> inf, out_facts |-> outf]
    ELSE LET block_key == Head(wl)
             block == c.block_map.body[block_key]
             out_fact == meet_fn("backward", FactsOf(inf, c.successors[block_key]))
             new_in_fact == transfer_fn("backward", out_fact, block, block_key, <<>>)
             changed == ~fact_equality_checker(new_in_fact, inf[block_key])
         IN  backward_data_flow(
                 c, next_worklist(wl, changed, c.predecessors[block_key]),
                 IF changed THEN [inf EXCEPT ![block_key] = new_in_fact] ELSE inf,
                 [outf EXCEPT ![block_key] = out_fact])

\* construct_interference_graph, lines 34-49: the pairs of distinct values of
\* one set of facts
same_set_pairs(facts) ==
    UNION {{<<v1, v2>> : v1 \in facts[b], v2 \in facts[b]} \ {<<v, v>> : v \in facts[b]} :
           b \in DOMAIN facts}

\* in_out_pairs that keeps the pair of a value with itself
in_out_pairs_noskip(live_in, live_out) ==
    UNION {{<<v1, v2>> : v1 \in live_in[b], v2 \in live_out[b]} : b \in DOMAIN live_in}

\* lines 53-59: the pairs of a live-in and a live-out value of one block
in_out_pairs(live_in, live_out) ==
    UNION {{<<v1, v2>> : v1 \in live_in[b], v2 \in live_out[b]}
              \ {<<v, v>> : v \in live_in[b]} :
           b \in DOMAIN live_in}

\* lines 39-40, 48-49, 58-59: edges[v1].add(v2); edges[v2].add(v1) for every
\* pair, on a defaultdict(set)
edges_of_pairs(pairs) ==
    LET sym == pairs \cup {<<p[2], p[1]>> : p \in pairs}
    IN  [v \in {p[1] : p \in sym} |-> {p[2] : p \in {q \in sym : q[1] = v}}]

\* construct_interference_graph without the loop over the live-in sets
construct_interference_graph_outonly(live_in, live_out) ==
    [vertices |-> UNION {live_in[b] : b \in DOMAIN live_in}
                  \cup UNION {live_out[b] : b \in DOMAIN live_out},
     edges |-> edges_of_pairs(same_set_pairs(live_out) \cup in_out_pairs(live_in, live_out))]

\* construct_interference_graph, lines 20-59 and 67
construct_interference_graph(live_in, live_out) ==
    [vertices |-> UNION {live_in[b] : b \in DOMAIN live_in}
                  \cup UNION {live_out[b] : b \in DOMAIN live_out},
     edges |-> edges_of_pairs(same_set_pairs(live_in) \cup same_set_pairs(live_out)
                              \cup in_out_pairs(live_in, live_out))]

\* construct_interference_graph: the live sets liveness_analysis returned
\* (line 18) become the graph
ConstructInterferenceGraph ==
    /\ df_pc = "done"
    /\ mode = "backward"
    /\ live_graph' = construct_interference_graph(in_facts, out_facts)
    /\ df_pc' = "graph"
    /\ UNCHANGED <<mode, cfg, earliest, in_facts, out_facts, worklist>>
    /\ UNCHANGED not_df_vars

NextDF ==
    \/ SolveDataflow
    \/ ForwardStep
    \/ BackwardStep
    \/ SolveReturn
    \/ ConstructInterferenceGraph

SpecDF == InitDF /\ [][NextDF]_vars

\* The solver is one synchronous loop: a turn that can be taken is taken
SpecDFFair == InitDF /\ [][NextDF]_vars /\ WF_vars(NextDF)

(***************************************************************************)
(* Properties of register_allocation.py                                    *)
(***************************************************************************)
Adjacent(a, b) == b \in GetEdges(a, ig_edges)

Returned == ra_pc = "returned" /\ k >= 1

ProperColoring ==
    \A a \in DOMAIN virtual_to_physical : \A b \in DOMAIN virtual_to_physical :
        Adjacent(a, b) => virtual_to_physical[a] # virtual_to_physical[b]

\* C1: in the colouring returned by allocate_k_registers (k >= 1) two vertices
\* adjacent in the original interference graph that both have a colour have
\* different colours, whatever mix of to-colour and to-spill steps produced it.
C1_ProperColoring == Returned => ProperColoring

\* a returned colouring with a coloured to-spill vertex next to a coloured
\* to-colour vertex
C1_Witness ==
    /\ Returned
    /\ \E a \in DOMAIN virtual_to_physical : \E b \in DOMAIN virtual_to_physical :
          Adjacent(a, b) /\ tag[a] = tospill /\ tag[b] = tocolor

\* C2: when allocate_k_registers returns (k >= 1) every vertex of the graph
\* either has a colour in [0,k) and is not spilled, or is spilled and has no colour.
C2_ColouredXorSpilled ==
    Returned =>
        /\ DOMAIN virtual_to_physical \subseteq ig_vertices
        /\ spill_set \subseteq ig_vertices
        /\ \A v \in ig_vertices :
              \/ /\ v \in DOMAIN virtual_to_physical
                 /\ virtual_to_physical[v] \in 0..(k - 1)
                 /\ v \notin spill_set
              \/ /\ v \in spill_set
                 /\ v \notin DOMAIN virtual_to_physical

C2_Witness ==
    /\ Returned
    /\ spill_set # {}
    /\ Cardinality(DOMAIN virtual_to_physical) >= 2

IsComplete ==
    \A a \in ig_vertices : \A b \in ig_vertices : a # b => Adjacent(a, b)

\* C3: on a complete interference graph with n vertices allocate_k_registers
\* with k >= n returns no spill and a proper colouring of all n vertices, and
\* with 1 <= k < n returns exactly n - k spilled vertices.
C3_CompleteGraph ==
    LET n == Cardinality(ig_vertices)
    IN  (IsComplete /\ k >= 1) =>
           /\ ra_pc # "failed"
           /\ ra_pc = "returned" =>
                 IF k >= n
                 THEN /\ spill_set = {}
                      /\ DOMAIN virtual_to_physical = ig_vertices
                      /\ ProperColoring
                 ELSE Cardinality(spill_set) = n - k

C3_Witness ==
    /\ Returned
    /\ IsComplete
    /\ Cardinality(ig_vertices) = MaxVerts
    /\ k = 2
    /\ Cardinality(spill_set) = MaxVerts - 2

\* C4: for every register count k >= 1 register_allocation runs the first
\* attempt and, when it spills, the retry with k-1 to completion without a
\* failed assertion.
C4_NoFailedAssertion == ra_pc # "failed"

\* C5: inside allocate_k_registers with k >= 1 no assertion fails: the
\* max-degree vertex exists when nothing has degree < k, and every vertex that
\* is to be coloured finds a free colour in [0,k).
C5_NoAssertionFails == k >= 1 => ra_pc # "failed"

\* an attempt that went through the max-degree choice and coloured the
\* to-spill vertex optimistically, next to to-colour vertices
C5_Witness ==
    /\ Returned
    /\ Cardinality(DOMAIN virtual_to_physical) = MaxVerts
    /\ \E v \in DOMAIN virtual_to_physical : tag[v] = tospill

(***************************************************************************)
(* Properties of lib/control_flow_graph.py                                 *)
(***************************************************************************)
CfgReturned == cfg_pc = "returned"

\* the first block of the map add_entry was called on
old_first == entry_arg.order[1]

\* C6: in the CFG returned by construct_cfg, under every option setting, every
\* block is non-empty and ends with a terminator (jmp, br or ret), the
\* synthesized entry block included.
C6_EveryBlockTerminated ==
    CfgReturned =>
        \A name \in Keys(block_map) :
            /\ block_map.body[name] # <<>>
            /\ Last(block_map.body[name]).op \in TERMINATOR_OPS

\* C7: in the CFG returned by construct_cfg with edges computed, b is in
\* successors[a] iff a is in predecessors[b], and both maps have an entry for
\* exactly the blocks of the block map.
C7_MutualInverses ==
    (CfgReturned /\ ~block_only) =>
        /\ DOMAIN predecessors = Keys(block_map)
        /\ DOMAIN successors = Keys(block_map)
        /\ \A a \in Keys(block_map) : \A b \in Keys(block_map) :
              b \in Range(successors[a]) <=> a \in Range(predecessors[b])

\* C8: when some instruction targets the name of the first block, the first
\* block of the returned CFG is a newly synthesized block without predecessors
\* that transfers control to the old first block (the old first block is its
\* successor and it is a predecessor of the old first block); when no
\* instruction targets the first block, add_entry adds no block.
C8_EntryTransfersControl ==
    (CfgReturned /\ ~block_only) =>
        LET first == block_map.order[1]
        IN  IF References(entry_arg, old_first)
            THEN /\ first \notin Keys(entry_arg)
                 /\ predecessors[first] = <<>>
                 /\ old_first \in Range(successors[first])
                 /\ first \in Range(predecessors[old_first])
            ELSE first = old_first

\* C9: in every CFG returned by construct_cfg exactly one block has no
\* predecessors, and it is the first block of the block map.
C9_UniqueRoot ==
    (CfgReturned /\ ~block_only) =>
        possible_roots(block_map, predecessors) = <<block_map.order[1]>>

\* the instructions that are neither labels nor terminators, in order
Payload(ins) ==
    SelectSeq(ins, LAMBDA instr : ~IsLabel(instr) /\ instr.op \notin TERMINATOR_OPS)

\* C10: reassemble(construct_cfg(instrs)) contains every non-terminator,
\* non-label instruction of instrs exactly once and in the same relative order.
C10_PayloadPreserved ==
    cfg_pc = "reassembled" => Payload(out_instrs) = Payload(instrs)

\* the blocks of a list of blocks, one after the other
RECURSIVE Concat(_)
Concat(bs) == IF bs = <<>> THEN <<>> ELSE Head(bs) \o Concat(Tail(bs))

\* the blocks form_blocks has yielded
FormedByBlocks == cfg_pc = "formed" /\ ~per_line

\* C12: form_blocks partitions the instruction list: the blocks it yields,
\* concatenated, give back the input in order (so every item is in exactly one
\* block), no block is empty, a terminator is only the last item of a block
\* and a label only the first.
C12_FormBlocksPartition ==
    FormedByBlocks =>
        /\ Concat(blocks) = instrs
        /\ \A b \in 1..Len(blocks) :
              /\ blocks[b] # <<>>
              /\ \A j \in 1..Len(blocks[b]) :
                    /\ blocks[b][j].op \in TERMINATOR_OPS => j = Len(blocks[b])
                    /\ IsLabel(blocks[b][j]) => j = 1

\* a list cut both after a terminator and before a label
C12_Witness ==
    /\ FormedByBlocks
    /\ Len(instrs) = MaxLen
    /\ Len(blocks) >= 2
    /\ \E b \in 1..(Len(blocks) - 1) :
          /\ Len(blocks[b]) >= 2
          /\ Last(blocks[b]).op \in TERMINATOR_OPS
          /\ IsLabel(blocks[b + 1][1])

\* how many times v occurs in the sequence s
Count(v, s) == Cardinality({i \in 1..Len(s) : s[i] = v})

\* the instructions of all blocks of a block map, in map order
RECURSIVE BodiesFrom(_, _)
BodiesFrom(bm, i) ==
    IF i > Len(bm.order) THEN <<>>
    ELSE bm.body[bm.order[i]] \o BodiesFrom(bm, i + 1)

AllInstrs(bm) == BodiesFrom(bm, 1)

\* C13: construct_cfg never silently drops an instruction: for a list with
\* pairwise distinct labels no block name is given twice (the map has a key
\* for every block formed) and every non-label instruction of the input is in
\* the returned block map as often as in the input (a non-terminator exactly
\* as often), under every option setting.
C13_NoInstructionDropped ==
    CfgReturned =>
        /\ Len(block_map.order) >= Len(blocks)
        /\ \A i \in 1..Len(instrs) :
              ~IsLabel(instrs[i]) =>
                  /\ Count(instrs[i], AllInstrs(block_map)) >= Count(instrs[i], instrs)
                  /\ instrs[i].op \notin TERMINATOR_OPS =>
                        Count(instrs[i], AllInstrs(block_map)) = Count(instrs[i], instrs)

\* the permutations of 1..n
Perms(n) == {q \in [1..n -> 1..n] : \A i \in 1..n : \A j \in 1..n : i # j => q[i] # q[j]}

\* the instruction with its jump targets renamed by f
Renamed(instr, f) ==
    [instr EXCEPT !.labels = [j \in 1..Len(instr.labels) |->
        IF instr.labels[j] \in DOMAIN f THEN f[instr.labels[j]] ELSE instr.labels[j]]]

SuccSet(succs, a) == IF a \in DOMAIN succs THEN Range(succs[a]) ELSE {}

\* f renames the blocks of the CFG (bm, succs) into those of (bm2, succs2):
\* the same instructions in each block and the same edges
IsIsomorphism(f, bm, succs, bm2, succs2, with_edges) ==
    /\ \A name \in Keys(bm) :
          bm2.body[f[name]] =
              [j \in 1..Len(bm.body[name]) |-> Renamed(bm.body[name][j], f)]
    /\ with_edges =>
          \A a \in Keys(bm) : \A b \in Keys(bm) :
              b \in SuccSet(succs, a) <=> f[b] \in SuccSet(succs2, f[a])

Isomorphic(bm, succs, bm2, succs2, with_edges) ==
    /\ Len(bm.order) = Len(bm2.order)
    /\ \E q \in Perms(Len(bm.order)) :
          IsIsomorphism([name \in Keys(bm) |-> bm2.order[q[IndexOf(bm.order, name)]]],
                        bm, succs, bm2, succs2, with_edges)

\* C11: for a CFG c returned by construct_cfg, construct_cfg(reassemble(c))
\* returns a CFG whose blocks and edges are those of c up to a renaming of the
\* blocks, also when c has a synthesized entry block.
C11_Idempotent ==
    cfg_pc = "rebuilt" =>
        /\ rebuilt.err = ""
        /\ Isomorphic(block_map, successors, rebuilt.bm, rebuilt.succs, ~block_only)

\* remove_critical_edges has returned
CriticalRemoved == cfg_pc = "critical_removed"

MutualInverses(bm, preds, succs) ==
    /\ DOMAIN preds = Keys(bm)
    /\ DOMAIN succs = Keys(bm)
    /\ \A a \in Keys(bm) : \A b \in Keys(bm) :
          b \in Range(succs[a]) <=> a \in Range(preds[b])

\* C20: in the CFG returned by remove_critical_edges every edge p -> b that
\* was split with a new empty block n has n in successors[p],
\* successors[n] = [b], predecessors[n] = [p] and n in predecessors[b], and
\* the predecessor and successor maps are mutual inverses.
C20_SplitKeepsConnectivity ==
    CriticalRemoved =>
        /\ \A i \in 1..Len(new_cfg.split) :
              LET p == new_cfg.split[i][1]
                  b == new_cfg.split[i][2]
                  n == new_cfg.split[i][3]
              IN  /\ n \in Range(new_cfg.succs[p])
                  /\ new_cfg.succs[n] = <<b>>
                  /\ new_cfg.preds[n] = <<p>>
                  /\ n \in Range(new_cfg.preds[b])
        /\ MutualInverses(new_cfg.bm, new_cfg.preds, new_cfg.succs)

(***************************************************************************)
(* Properties of lib/dataflow.py and lib/liveness_analysis.py              *)
(***************************************************************************)
\* solve_dataflow has returned
Solved == df_pc \in {"done", "graph"}

\* a block on a cycle of the CFG through one other block
OnTwoCycle(a) ==
    \E b \in Keys(cfg.block_map) :
        a # b /\ b \in Range(cfg.successors[a]) /\ a \in Range(cfg.successors[b])

\* C14: when solve_dataflow returns on a CFG whose predecessor and successor
\* maps are mutual inverses, the facts solve the dataflow equations at every
\* block b: backward, out[b] is the meet of in[s] over the successors s of b
\* and in[b] equals transfer(out[b], b) under the equality test; forward,
\* in[b] is the meet of out[p] over the predecessors p and out[b] equals
\* transfer(in[b], b).
C14_FixedPoint ==
    (Solved /\ MutualInverses(cfg.block_map, cfg.predecessors, cfg.successors)) =>
        \A b \in Keys(cfg.block_map) :
            IF mode = "backward"
            THEN /\ out_facts[b] = meet_fn(mode, FactsOf(in_facts, cfg.successors[b]))
                 /\ fact_equality_checker(in_facts[b],
                        transfer_fn(mode, out_facts[b], cfg.block_map.body[b], b, earliest))
            ELSE /\ in_facts[b] = meet_fn(mode, FactsOf(out_facts, cfg.predecessors[b]))
                 /\ fact_equality_checker(out_facts[b],
                        transfer_fn(mode, in_facts[b], cfg.block_map.body[b], b, earliest))

\* a backward solution in which a fact went round a cycle of two blocks
C14_Witness ==
    /\ Solved
    /\ mode = "backward"
    /\ \E a \in Keys(cfg.block_map) :
          /\ OnTwoCycle(a)
          /\ in_facts[a] # {}
          /\ out_facts[a] # {}
          /\ in_facts[a] # use(cfg.block_map.body[a])

\* C15: liveness_analysis terminates on every finite CFG, cyclic or not: the
\* worklist of the solver becomes empty and the facts are returned.
C15_Terminates ==
    (mode = "backward" /\ df_pc = "start") ~> (df_pc = "done" /\ worklist = <<>>)

\* liveness has returned on a CFG with a block that is its own successor and
\* carries a value round the loop
C15_Witness ==
    /\ df_pc = "done"
    /\ mode = "backward"
    /\ \E a \in Keys(cfg.block_map) :
          /\ a \in Range(cfg.successors[a])
          /\ out_facts[a] # {}
          /\ Len(cfg.block_map.order) = MaxBlocks

\* liveness_analysis has returned on the diamond
DiamondSolved == Solved /\ mode = "backward" /\ cfg \in DiamondCfgs

\* C16: on the diamond A -> B, A -> C, B -> D, C -> D where B defines x, D
\* uses x, C never touches x and nothing else uses x, liveness_analysis
\* returns live_out[B] = {x} and live_in[D] = {x}.
C16_DiamondLiveOutB ==
    DiamondSolved => (out_facts["B"] = {"x"} /\ in_facts["D"] = {"x"})

C16_Witness ==
    /\ DiamondSolved
    /\ df_pc = "done"
    /\ Len(cfg.block_map.body["D"]) = 2

\* C17: on the same diamond liveness_analysis returns live_in[C] = {} and
\* live_out[A] = {}.
C17_DiamondLiveInC ==
    DiamondSolved => (in_facts["C"] = {} /\ out_facts["A"] = {})

\* C17 as the code has it: x is live on the path A -> C -> D, on which nothing
\* defines it, so liveness_analysis returns live_in[C] = {x} and live_out[A] = {x}.
C17_DiamondLiveThroughC ==
    DiamondSolved => (in_facts["C"] = {"x"} /\ out_facts["A"] = {"x"})

C17_Witness ==
    /\ DiamondSolved
    /\ df_pc = "done"
    /\ cfg.block_map.body["A"] = <<ConstTo("x")>>
    /\ cfg.block_map.body["C"] = <<ConstTo("y")>>

(***************************************************************************)
(* Properties of construct_interference_graph                              *)
(***************************************************************************)
GraphBuilt == df_pc = "graph"

\* b is a neighbour of a in the graph returned
Interfere(a, b) == b \in GetEdges(a, live_graph.edges)

\* some live-in set or some live-out set contains both values
CoLive(a, b) ==
    \E blk \in Keys(cfg.block_map) :
        \/ {a, b} \subseteq in_facts[blk]
        \/ {a, b} \subseteq out_facts[blk]

\* one value is live into a block and the other live out of the same block
InOutOfOneBlock(a, b) ==
    \E blk \in Keys(cfg.block_map) :
        \/ a \in in_facts[blk] /\ b \in out_facts[blk]
        \/ b \in in_facts[blk] /\ a \in out_facts[blk]

LiveValues ==
    UNION {in_facts[blk] \cup out_facts[blk] : blk \in Keys(cfg.block_map)}

\* C18: in the graph returned by construct_interference_graph two distinct
\* values that are both in the live-out set of one block, or both in the
\* live-in set of one block, are adjacent (each is in the other's adjacency
\* set), and every such value is a vertex.
C18_CoLiveAdjacent ==
    GraphBuilt =>
        /\ LiveValues \subseteq live_graph.vertices
        /\ \A a \in LiveValues : \A b \in LiveValues :
              (a # b /\ CoLive(a, b)) => (Interfere(a, b) /\ Interfere(b, a))

\* two values live into a block that returns, live together nowhere else
C18_Witness ==
    /\ GraphBuilt
    /\ \E blk \in Keys(cfg.block_map) :
          /\ in_facts[blk] = {"x", "y"}
          /\ out_facts[blk] = {}
    /\ Interfere("x", "y")

\* C19: in the graph returned by construct_interference_graph two values are
\* adjacent only if some live-in set or some live-out set contains both; a
\* value that shares no live-in or live-out set with another value has no
\* neighbours.
C19_AdjacentOnlyIfCoLive ==
    GraphBuilt =>
        \A a \in live_graph.vertices : \A b \in live_graph.vertices :
            Interfere(a, b) => (a # b /\ CoLive(a, b))

\* C19 as the code has it: two values are adjacent only if some live-in or
\* live-out set contains both, or one is in the live-in set and the other in
\* the live-out set of one block; every key of the adjacency map and every
\* neighbour is a vertex, and a value in neither relation to another value has
\* no neighbours.
C19_AdjacentOnlyIfCoLiveOrInOut ==
    GraphBuilt =>
        /\ DOMAIN live_graph.edges \subseteq live_graph.vertices
        /\ \A a \in DOMAIN live_graph.edges : live_graph.edges[a] \subseteq live_graph.vertices
        /\ \A a \in live_graph.vertices : \A b \in live_graph.vertices :
              Interfere(a, b) => (a # b /\ (CoLive(a, b) \/ InOutOfOneBlock(a, b)))

\* two vertices that are not adjacent, and two that are adjacent through the
\* live-in and the live-out set of one block only
C19_Witness ==
    /\ GraphBuilt
    /\ Interfere("x", "y")
    /\ ~CoLive("x", "y")
    /\ InOutOfOneBlock("x", "y")

(***************************************************************************)
(* Properties of the normalizing transforms of lib/control_flow_graph.py   *)
(***************************************************************************)
\* the edge p -> b of the CFG handed to remove_critical_edges is critical
IsCritical(p, b) ==
    /\ b \in Range(successors[p])
    /\ Len(successors[p]) > 1
    /\ Len(predecessors[b]) > 1

\* remove_critical_edges inserted a block on the edge p -> b
WasSplit(p, b) ==
    \E i \in 1..Len(new_cfg.split) :
        new_cfg.split[i][1] = p /\ new_cfg.split[i][2] = b

\* C21: remove_critical_edges inserts an intermediate block on an edge p -> b
\* if and only if p has more than one successor and b has more than one
\* predecessor; every other edge of the input is an edge of the result, and
\* the result has no critical edge.
C21_SplitsExactlyCritical ==
    CriticalRemoved =>
        /\ \A p \in Keys(block_map) : \A b \in Keys(block_map) :
            /\ WasSplit(p, b) <=> IsCritical(p, b)
            /\ (b \in Range(successors[p]) /\ ~IsCritical(p, b)) =>
                   (b \in Range(new_cfg.succs[p]) /\ p \in Range(new_cfg.preds[b]))
        /\ \A q \in Keys(new_cfg.bm) : \A c \in Keys(new_cfg.bm) :
                  ~(/\ c \in Range(new_cfg.succs[q])
                    /\ Len(new_cfg.succs[q]) > 1
                    /\ Len(new_cfg.preds[c]) > 1)

\* prune_empty_cfg_blocks was called and has returned or raised
PruneEnded == cfg_pc = "pruned" \/ (cfg_pc = "error" /\ pruned.err # "")

\* C22: prune_empty_cfg_blocks returns a CFG with no empty block in which,
\* for every removed block e, every former predecessor p of e that remains has
\* every former successor s of e that remains among its successors and p is
\* among the predecessors of s; no removed name remains in a list, and the
\* predecessor and successor maps are mutual inverses.
C22_PruneNeverDropsEdge ==
    PruneEnded =>
        /\ pruned.err = ""
        /\ \A n \in Keys(pruned.bm) : pruned.bm.body[n] # <<>>
        /\ \A e \in Keys(block_map) \ Keys(pruned.bm) :
              \A p \in Range(predecessors[e]) \cap Keys(pruned.bm) :
                  \A s \in Range(successors[e]) \cap Keys(pruned.bm) :
                      s \in Range(pruned.succs[p]) /\ p \in Range(pruned.preds[s])
        /\ \A n \in Keys(pruned.bm) :
              /\ Range(pruned.succs[n]) \subseteq Keys(pruned.bm)
              /\ Range(pruned.preds[n]) \subseteq Keys(pruned.bm)
        /\ MutualInverses(pruned.bm, pruned.preds, pruned.succs)

\* restrict_to_single_instr has returned inside construct_cfg
RestrictReturned == restrict_arg # NoArg

\* the blocks of two instructions of the CFG handed to restrict_to_single_instr
TwoInstrBlocks ==
    {x \in Keys(restrict_arg.before.bm) : Len(restrict_arg.before.bm.body[x]) = 2}

\* C23: restrict_to_single_instr returns a CFG in which every block holds at
\* most one instruction: each two-instruction block X = [i1, i2] becomes
\* X = [i1] plus a new block N = [i2] with the edge X -> N, N taking over the
\* former successors of X; the new blocks of different splits are pairwise
\* distinct and distinct from the blocks of the input, and the result holds
\* every instruction of the input exactly as often as the input.
C23_SplitInTwo ==
    RestrictReturned =>
        /\ \A n \in Keys(block_map) : Len(block_map.body[n]) <= 1
        /\ \E f \in [TwoInstrBlocks -> Keys(block_map) \ Keys(restrict_arg.before.bm)] :
              /\ \A x \in TwoInstrBlocks : \A y \in TwoInstrBlocks : x # y => f[x] # f[y]
              /\ \A x \in TwoInstrBlocks :
                    /\ block_map.body[x] = <<restrict_arg.before.bm.body[x][1]>>
                    /\ block_map.body[f[x]] = <<restrict_arg.before.bm.body[x][2]>>
                    /\ f[x] \in Range(successors[x])
                    /\ x \in Range(predecessors[f[x]])
                    /\ successors[f[x]] = restrict_arg.before.succs[x]
        /\ \A instr \in Alphabet \cup {Ret} :
              Count(instr, AllInstrs(block_map))
                  = Count(instr, AllInstrs(restrict_arg.before.bm))

\* construct_cfg is about to call restrict_to_single_instr (line 218)
HandedToRestrict == cfg_pc = "jmps_removed"

\* C24: under both block-formation modes every block handed to
\* restrict_to_single_instr holds at most two instructions, the second of
\* which is a jmp or a ret, so that no assertion of restrict_to_single_instr
\* fails.
C24_AtMostTwoBeforeSplit ==
    HandedToRestrict =>
        /\ \A n \in Keys(block_map) :
              /\ Len(block_map.body[n]) <= 2
              /\ Len(block_map.body[n]) = 2 => block_map.body[n][2].op \in {"jmp", "ret"}
        /\ restrict_to_single_instr(block_map, predecessors, successors).err
               # "AssertionError"

\* a jmp without exactly one target or a br without exactly two
WrongArity(instr) ==
    \/ instr.op = "jmp" /\ Len(instr.labels) # 1
    \/ instr.op = "br" /\ Len(instr.labels) # 2

\* C25: for an instruction list that holds a jmp whose target list does not
\* have exactly one label, or a br whose target list does not have exactly two,
\* construct_cfg ends in an error and returns no CFG.
C25_ArityChecked ==
    (\E i \in 1..Len(instrs) : WrongArity(instrs[i])) => cfg_pc # "returned"

(***************************************************************************)
(* Properties of register_allocation.py, continued                         *)
(***************************************************************************)
\* an attempt starts from scratch on the graph of construct_interference_graph
FromScratch ==
    /\ vertices' = ig_vertices
    /\ edges' = ig_edges
    /\ processed_vertices' = <<>>
    /\ virtual_to_physical' = EmptyDict
    /\ spill_set' = {}
    /\ UNCHANGED <<ig_vertices, ig_edges>>

\* one step of register_allocation keeps to the retry policy
RetryPolicyStep ==
    /\ (ra_pc = "returned" /\ attempt = 1 /\ spill_set = {}) =>
           (ra_pc' = "done" /\ attempt' = 1)
    /\ (ra_pc = "returned" /\ attempt = 1 /\ spill_set # {}) =>
           (attempt' = 2 /\ k' = num_physical_registers - 1 /\ FromScratch)
    /\ (ra_pc = "returned" /\ attempt = 2) => (ra_pc' = "done" /\ attempt' = 2)
    /\ attempt' # attempt => (attempt' = attempt + 1 /\ attempt' <= 2 /\ FromScratch)
    /\ (ra_pc # "done" /\ ra_pc' = "done") => spill_count' = Cardinality(spill_set)

\* C26: register_allocation makes no further attempt when the first attempt
\* returns an empty spill set; when it returns a non-empty spill set there is
\* exactly one further attempt, with k-1 registers, on the interference graph
\* of the first attempt built anew, with an empty stack, colouring and spill
\* set, and the spill count returned is that of the second attempt.
C26_RetryPolicy == [][RetryPolicyStep]_vars

\* register_allocation returned the spill count of a second attempt, made
\* with one register less, that spilled two vertices or more
C26_Witness ==
    /\ ra_pc = "done"
    /\ attempt = 2
    /\ spill_count = Cardinality(spill_set)
    /\ spill_count >= 2
    /\ k = num_physical_registers - 1

\* the vertex pushed by a step of the simplify loop was picked by the rule:
\* to-colour with current degree < k, to-spill when no remaining vertex has
\* current degree < k and none has a greater current degree
PushedByRule ==
    \A v \in (DOMAIN tag') \ (DOMAIN tag) :
        /\ tag'[v] = tocolor => vertex_degree(v, edges) < k
        /\ tag'[v] = tospill =>
              \A u \in vertices :
                  /\ vertex_degree(u, edges) >= k
                  /\ vertex_degree(u, edges) <= vertex_degree(v, edges)

\* the vertex spilled by a step of the select loop is a to-spill vertex whose
\* restored neighbours hold all k colours
SpilledByRule ==
    \A v \in spill_set' \ spill_set :
        /\ v = Top.vertex
        /\ tag[v] = tospill
        /\ (0..(k - 1)) \subseteq
               NeighborColors(v, virtual_to_physical, add_node(v, edges, Top.curr_edges))

\* C27: a vertex ends in the spill set of allocate_k_registers only if it was
\* removed in the simplify phase when no remaining vertex had current degree
\* < k and it had the maximum current degree (tag to-spill), and at its select
\* step the colours of its restored neighbours contained all k colours; a
\* vertex removed while its current degree was < k is never spilled.
C27_SpilledOnlyByRule ==
    [][/\ PushedByRule
       /\ SpilledByRule
       /\ \A v \in spill_set' : v \in DOMAIN tag' /\ tag'[v] = tospill]_vars

\* allocate_k_registers returned, with two registers or more, a spilled
\* to-spill vertex next to coloured to-colour vertices
C27_Witness ==
    /\ ra_pc = "returned"
    /\ k >= 2
    /\ \E v \in spill_set : tag[v] = tospill
    /\ \E v \in DOMAIN virtual_to_physical : tag[v] = tocolor

(***************************************************************************)
(* Properties of lib/dataflow.py, continued                                *)
(***************************************************************************)
\* liveness_analysis has returned
LivenessSolved == df_pc = "done" /\ mode = "backward"

\* the keys of cfg.block_map in the order q
Reordered(q) == [i \in 1..Len(cfg.block_map.order) |-> cfg.block_map.order[q[i]]]

NoFacts == [b \in Keys(cfg.block_map) |-> {}]

\* one round in which the live-in set of every block is recomputed from the
\* sets inf of the round before
LiveRound(inf) ==
    [b \in Keys(cfg.block_map) |->
        use(cfg.block_map.body[b])
        \cup ((UNION {inf[s] : s \in Range(cfg.successors[b])})
                  \ gen(cfg.block_map.body[b]))]

\* the least solution of the liveness equations: rounds from the empty sets
\* until no set grows
RECURSIVE LeastFrom(_)
LeastFrom(inf) ==
    LET next == LiveRound(inf)
    IN  IF next = inf THEN inf ELSE LeastFrom(next)

LeastLiveIn == LeastFrom(NoFacts)

C29_InputUnchanged ==
    RestrictReturned => restrict_arg.after = restrict_arg.before

(***************************************************************************)
(* Properties of the interference graph                                    *)
(***************************************************************************)
\* the adjacency e is symmetric and irreflexive: every neighbour is a key
\* that holds the vertex back, and no vertex is in its own set
SymmetricIrreflexive(e) ==
    \A a \in DOMAIN e :
        /\ a \notin e[a]
        /\ \A b \in e[a] : b \in DOMAIN e /\ a \in e[b]

====
